---- MODULE Spec2Model ----
(***************************************************************************)
(* Content submission and moderation workflow of the college notes         *)
(* manager: the Express routes of server/routes/notes.js and               *)
(* server/routes/questions.js (upload, approve/reject, list, detail), the  *)
(* multer disk storage they upload through, the e-mail fan-out they        *)
(* trigger, the user-administration routes of server/routes/users.js, and  *)
(* the notes and events routers of the college-management-system backend.  *)
(* Handlers are split at their awaits, so that requests interleave the way *)
(* they do on the Node event loop.                                         *)
(***************************************************************************)
EXTENDS Integers, Sequences, FiniteSets, TLC

\* ---------------------------------------------------------------- bounds
MaxUploads     == 1   \* POST / requests started in one behaviour
MaxModerations == 1   \* PATCH /:id/approve requests started in one behaviour
MaxApproves    == 2   \* approve requests started in a behaviour of repeated approval
MaxReads       == 1   \* GET / and GET /:id requests started in one behaviour
MaxCmsCreates  == 1   \* POST /api/notes requests of the college-management-system backend
NumSlots       == 2   \* requests in flight at the same time
MaxCmsOps      == 2   \* college-management-system requests on existing notes
MaxItems       == 5   \* stored notes a list request runs over
MaxPage        == 3   \* largest page parameter of a list request
MaxLimit       == 3   \* largest limit parameter of a list request
MaxEvents      == 1   \* POST /api/events requests that create an event
MaxEvOps       == 2   \* requests on existing events
MaxUserOps     == 2   \* user-administration requests

Slots == 1..NumSlots
Ids   == 1..MaxUploads   \* document ids handed out by the repository
Names == 1..MaxUploads   \* generated (collision-free) upload file names

\* ------------------------------------------------------------ user table
NoUser == 0

\* The users collection: role, department and notification preferences
\* (models/User: role, department, notifications {email,newNotes,newQuestions}).
UserTable ==
  << [role |-> "admin",   department |-> "CS", email |-> TRUE,  newNotes |-> TRUE,  newQuestions |-> TRUE ],
     [role |-> "teacher", department |-> "CS", email |-> TRUE,  newNotes |-> TRUE,  newQuestions |-> FALSE],
     [role |-> "student", department |-> "CS", email |-> FALSE, newNotes |-> TRUE,  newQuestions |-> TRUE ],
     [role |-> "student", department |-> "EE", email |-> TRUE,  newNotes |-> TRUE,  newQuestions |-> TRUE ] >>

Users == 1..Len(UserTable)
Roles == {"student", "teacher", "admin"}
Depts == {"CS", "EE"}
Kinds == {"note", "question"}

Role(u) == IF u = NoUser THEN "none" ELSE UserTable[u].role

\* ------------------------------------------------------------ middleware
\* auth: the request proceeds only for an authenticated user, who becomes req.user
auth(u) == u \in Users

\* teacherAuth: the request proceeds only for a teacher or an admin
teacherAuth(u) == Role(u) \in {"teacher", "admin"}

\* ------------------------------------------------------------ file store
\* Paths are relative to the server directory.
UploadsDir   == "uploads/"
NotesDir     == "uploads/notes/"
QuestionsDir == "uploads/questions/"
AvatarsDir   == "uploads/avatars/"
Dirs == {UploadsDir, NotesDir, QuestionsDir, AvatarsDir}
Paths == [dir : Dirs, name : Names]
NoPath == [dir |-> "", name |-> 0]

\* String.prototype.includes on strings written as tuples of characters
Includes(s, sub) ==
  \E i \in 1..(Len(s) - Len(sub) + 1) : SubSeq(s, i, i + Len(sub) - 1) = sub

\* req.route.path of router.post('/', ...): the path the route was declared with
SubmitRoutePath == << "/" >>

\* multer diskStorage destination
Destination(routePath) ==
  IF Includes(routePath, << "/", "n", "o", "t", "e", "s" >>) THEN NotesDir
  ELSE IF Includes(routePath, << "/", "q", "u", "e", "s", "t", "i", "o", "n", "s" >>) THEN QuestionsDir
  ELSE IF Includes(routePath, << "/", "a", "v", "a", "t", "a", "r" >>) THEN AvatarsDir
  ELSE UploadsDir

\* req.file.path: destination + generated file name
StoredPath(name) == [dir |-> Destination(SubmitRoutePath), name |-> name]

\* fileUrl: `/uploads/notes/${req.file.filename}` resp. `/uploads/questions/...`
FileUrl(kind, name) ==
  [dir |-> IF kind = "note" THEN "/uploads/notes/" ELSE "/uploads/questions/", name |-> name]

\* path.join(__dirname, '..', fileUrl): the url taken relative to the server directory
JoinServerDir(fileUrl) ==
  [dir |-> IF fileUrl.dir = "/uploads/notes/" THEN NotesDir
           ELSE IF fileUrl.dir = "/uploads/questions/" THEN QuestionsDir
           ELSE UploadsDir,
   name |-> fileUrl.name]

\* ------------------------------------------------------------ documents
NoItem == [id |-> 0, kind |-> "note", uploadedBy |-> NoUser, department |-> "",
           isApproved |-> FALSE, approvedBy |-> NoUser, approvedAt |-> 0,
           fileUrl |-> NoPath, downloads |-> 0]

\* A handler frame: the request and the handler's locals
Idle == [op |-> "idle", pc |-> "idle", kind |-> "note", user |-> NoUser, id |-> 0,
         approved |-> FALSE, reason |-> FALSE, valid |-> TRUE, file |-> NoPath,
         query |-> "", doc |-> NoItem, t0 |-> 0]

\* A response (status, items of the body), with the request it answers and the
\* document the handler worked on
NoOut == [op |-> "idle", kind |-> "note", user |-> NoUser, id |-> 0,
          approved |-> FALSE, reason |-> FALSE, valid |-> TRUE, file |-> NoPath,
          query |-> "", doc |-> NoItem, t0 |-> 0, err |-> "", status |-> 0, items |-> {}]

\* college-management-system: a response, with the requesting user
NoCmsResp == [user |-> NoUser, status |-> 0, note |-> 0, op |-> "", liked |-> FALSE, count |-> 0]

\* college-management-system: a handler frame between findOne and save(): the
\* paths the handler assigned (sets), the array it pushed to (push), the
\* version it loaded (v) and whether save() matches on it (where), and the
\* values the response is built from (liked, count)
CmsIdle == [op |-> "idle", user |-> NoUser, note |-> 0, sets |-> << >>, push |-> "",
            where |-> FALSE, v |-> 0, liked |-> FALSE, count |-> 0]

\* A list request's query string; 0, "" and << >> stand for an absent parameter
NoQuery == [page |-> 0, limit |-> 0, department |-> "", semester |-> 0, subject |-> << >>,
            search |-> << >>, approved |-> "absent", status |-> ""]

\* The response of a list request, with the request it answers
NoListResp == [backend |-> "", user |-> NoUser, query |-> NoQuery, status |-> 0, notes |-> << >>,
               total |-> 0, pages |-> 0, current |-> 0, hasNext |-> FALSE, hasPrev |-> FALSE]

\* events router: a handler frame between findOne and save().  status is
\* event.status as the handler sees it after its assignments
EvIdle == [op |-> "idle", user |-> NoUser, event |-> 0, sets |-> << >>, push |-> FALSE,
           where |-> FALSE, v |-> 0, body |-> << >>, status |-> ""]

\* events router: a response, with the request it answers
NoEvResp == [op |-> "", user |-> NoUser, event |-> 0, status |-> 0, count |-> 0]

\* users router: a handler frame of DELETE /:id
UsrIdle == [op |-> "idle", pc |-> "idle", user |-> NoUser, id |-> 0]

\* users router: a response, with the request it answers
NoUsrResp == [op |-> "", user |-> NoUser, id |-> 0, status |-> 0]

VARIABLES
  router,        \* the resource whose router the requests go to: notes or questions
  repo,          \* Notes and QuestionPaper collections: id -> document (NoItem: absent)
  nextId,        \* next document id
  files,         \* files present in the upload directories
  nextFile,      \* next generated file name
  unlinkIssued,  \* per path: fs.unlink calls issued
  unlinkDone,    \* per path: fs.unlink calls completed
  reqs,          \* requests in flight: slot -> handler frame
  out,           \* the response being sent in this step (NoOut: none)
  tasks,         \* setImmediate fan-out callbacks and their sends
  uploads,       \* POST / requests started so far
  moderations,   \* PATCH /:id/approve requests started so far
  reads,         \* GET requests started so far
  cmsNotes,      \* college-management-system Note collection, in order of creation
  cmsResp,       \* response being sent by the college-management-system backend
  cmsReqs,       \* college-management-system requests in flight: slot -> frame
  cmsOps,        \* college-management-system requests on existing notes started so far
  listResp,      \* response of the last paginated list request (either backend)
  events,        \* college-management-system Event collection, in order of creation
  evReqs,        \* event requests in flight: slot -> frame
  evResp,        \* response being sent by the events router
  evMails,       \* sendEventNotification calls made so far
  evOps,         \* requests on existing events started so far
  accounts,      \* server User collection: user id -> role ("none": no such user)
  usrReqs,       \* user-administration requests in flight: slot -> frame
  usrResp,       \* response being sent by the users router
  usrOps         \* user-administration requests started so far

vars == << router, repo, nextId, files, nextFile, unlinkIssued, unlinkDone, reqs, out, tasks,
           uploads, moderations, reads, cmsNotes, cmsResp, cmsReqs, cmsOps,
           listResp, events, evReqs, evResp, evMails, evOps,
           accounts, usrReqs, usrResp, usrOps >>

calls == << uploads, moderations, reads >>

\* new Date(): the wall clock, at the resolution of the moderation requests
\* received (the only handler that reads it)
now == moderations
cmsVars == << cmsNotes, cmsResp, cmsReqs, cmsOps >>

\* State of the routes outside the notes workflow
listVars == << listResp >>
eventVars == << events, evReqs, evResp, evMails, evOps >>
userVars == << accounts, usrReqs, usrResp, usrOps >>
otherVars == << listVars, eventVars, userVars >>

Init ==
  /\ router \in Kinds
  /\ repo = [i \in Ids |-> NoItem]
  /\ nextId = 1
  /\ files = {}
  /\ nextFile = 1
  /\ unlinkIssued = [p \in Paths |-> 0]
  /\ unlinkDone = [p \in Paths |-> 0]
  /\ reqs = [s \in Slots |-> Idle]
  /\ tasks = << >>
  /\ out = NoOut
  /\ uploads = 0
  /\ moderations = 0
  /\ reads = 0
  /\ cmsNotes = << >>
  /\ cmsResp = NoCmsResp
  /\ cmsReqs = [s \in Slots |-> CmsIdle]
  /\ cmsOps = 0
  /\ listResp = NoListResp
  /\ events = << >>
  /\ evReqs = [s \in Slots |-> EvIdle]
  /\ evResp = NoEvResp
  /\ evMails = << >>
  /\ evOps = 0
  /\ accounts = [u \in Users |-> UserTable[u].role]
  /\ usrReqs = [s \in Slots |-> UsrIdle]
  /\ usrResp = NoUsrResp
  /\ usrOps = 0

\* A request is taken up by the lowest free slot
CanStart(s) ==
  /\ reqs[s] = Idle
  /\ \A t \in Slots : t < s => reqs[t] # Idle

Exists(id) == id \in Ids /\ repo[id].id # 0

\* Model.findById on the collection of the given kind
FindById(kind, id) ==
  IF id \in Ids /\ repo[id].id # 0 /\ repo[id].kind = kind THEN repo[id] ELSE NoItem

\* res.status(status).json(...): the response to the request of frame r
Response(r, status, items, err) ==
  [op |-> r.op, kind |-> r.kind, user |-> r.user, id |-> r.id, approved |-> r.approved,
   reason |-> r.reason, valid |-> r.valid, file |-> r.file, query |-> r.query,
   doc |-> r.doc, t0 |-> r.t0,
   err |-> err, status |-> status, items |-> items]

\* fs.unlink(path, cb): the call is issued now and completes later
Unlink(issued, paths) == [p \in Paths |-> IF p \in paths THEN issued[p] + 1 ELSE issued[p]]


\* ------------------------------------------------------ notification fan-out
\* (variant: the query without the $ne clause on _id)
InterestedUsersWithUploader(dept, kind, exclude) ==
  { u \in Users :
      /\ UserTable[u].department = dept
      /\ UserTable[u].email
      /\ IF kind = "note" THEN UserTable[u].newNotes ELSE UserTable[u].newQuestions }

\* User.find({department, 'notifications.email': true,
\*            'notifications.newNotes' | 'notifications.newQuestions': true, _id: {$ne: exclude}})
InterestedUsers(dept, kind, exclude) ==
  { u \in Users :
      /\ UserTable[u].department = dept
      /\ UserTable[u].email
      /\ IF kind = "note" THEN UserTable[u].newNotes ELSE UserTable[u].newQuestions
      /\ u # exclude }

\* if (interestedUsers.length > 0) setImmediate(async () => { ... })
ScheduleFanout(q, recips, doc, origin) ==
  IF recips = {} THEN q
  ELSE Append(q, [recips |-> recips, status |-> [u \in recips |-> "queued"],
                  item |-> doc.id, kind |-> doc.kind, department |-> doc.department,
                  uploadedBy |-> doc.uploadedBy, origin |-> origin, started |-> FALSE])

\* (variant: the sends run one after the other and stop at the first failure,
\*  so only the first recipient is sure to be attempted)
FanoutAttemptsFirstOnly(recips) == {u \in recips : \A v \in recips : u <= v}

\* interestedUsers.map(user => emailService.sendNew...Notification(...)): every
\* call runs up to its first await, so a send is started for every recipient
FanoutAttempts(recips) == recips

\* The setImmediate callback runs: Promise.allSettled over one send per recipient
FanoutRun(i) ==
  /\ i \in 1..Len(tasks)
  /\ ~tasks[i].started
  /\ tasks' = [tasks EXCEPT ![i].started = TRUE,
                            ![i].status = [u \in tasks[i].recips |->
                               IF u \in FanoutAttempts(tasks[i].recips) THEN "inflight" ELSE "queued"]]
  /\ out' = NoOut
  /\ UNCHANGED << router, repo, nextId, files, nextFile, unlinkIssued, unlinkDone, reqs, calls, cmsVars, otherVars >>

\* One send settles; when the last one has, allSettled resolves, the callback
\* returns and nothing is left of the fan-out
Settle(q, i, u, ok) ==
  LET st == [q[i].status EXCEPT ![u] = IF ok THEN "ok" ELSE "failed"]
  IN IF \A v \in q[i].recips : st[v] \in {"ok", "failed"}
     THEN [k \in 1..(Len(q) - 1) |-> IF k < i THEN q[k] ELSE q[k + 1]]
     ELSE [q EXCEPT ![i].status = st]

\* transporter.sendMail settles for one recipient; sendEmail logs and rethrows a
\* failure, allSettled absorbs it
SendSettle(i, u, ok) ==
  /\ i \in 1..Len(tasks)
  /\ u \in tasks[i].recips
  /\ tasks[i].status[u] = "inflight"
  /\ tasks' = Settle(tasks, i, u, ok)
  /\ out' = NoOut
  /\ UNCHANGED << router, repo, nextId, files, nextFile, unlinkIssued, unlinkDone, reqs, calls, cmsVars, otherVars >>

\* ---------------------------------------------------------------- file store
\* An issued fs.unlink completes: the file is removed, or ENOENT is logged
UnlinkComplete(p) ==
  /\ unlinkDone[p] < unlinkIssued[p]
  /\ unlinkDone' = [unlinkDone EXCEPT ![p] = @ + 1]
  /\ files' = files \ {p}
  /\ out' = NoOut
  /\ UNCHANGED << router, repo, nextId, nextFile, unlinkIssued, reqs, tasks, calls, cmsVars, otherVars >>

\* The handler of slot s answers and returns
Finish(s, status, items, err) ==
  /\ out' = Response(reqs[s], status, items, err)
  /\ reqs' = [reqs EXCEPT ![s] = Idle]

\* ---------------------------------------------------------- POST / (upload)
\* (variant: only admins publish directly)
IsApprovedOnCreateAdminOnly(role) == role = "admin"

\* isApproved: req.user.role === 'teacher' || req.user.role === 'admin'
IsApprovedOnCreate(role) == role = "teacher" \/ role = "admin"

\* (variant: the uploaded file is left behind)
CleanupPathsNone(file) == {}

\* if (req.file) fs.unlink(req.file.path, ...)
CleanupPaths(file) == IF file # NoPath THEN {file} ELSE {}

\* new Notes({...}) / new QuestionPaper({...})
NewDoc(id, kind, user, dept, name) ==
  [id |-> id, kind |-> kind, uploadedBy |-> user, department |-> dept,
   isApproved |-> IsApprovedOnCreate(Role(user)), approvedBy |-> NoUser, approvedAt |-> 0,
   fileUrl |-> FileUrl(kind, name), downloads |-> 0]

\* auth, upload.single('file'), the validators, and the handler up to note.save()
StartSubmit(s, u, kind, dept, valid, hasFile) ==
  /\ CanStart(s)
  /\ uploads < MaxUploads
  /\ auth(u)
  /\ uploads' = uploads + 1
  /\ LET file == IF hasFile THEN StoredPath(nextFile) ELSE NoPath
         r0 == [Idle EXCEPT !.op = "submit", !.kind = kind, !.user = u, !.valid = valid,
                            !.file = file]
     IN /\ files' = IF hasFile THEN files \cup {file} ELSE files
        /\ nextFile' = IF hasFile THEN nextFile + 1 ELSE nextFile
        /\ IF ~valid
           THEN /\ unlinkIssued' = Unlink(unlinkIssued, CleanupPaths(file))
                /\ out' = Response(r0, 400, {}, "validation")
                /\ UNCHANGED << reqs, nextId >>
           ELSE IF ~hasFile
           THEN /\ out' = Response(r0, 400, {}, "file")
                /\ UNCHANGED << reqs, unlinkIssued, nextId >>
           ELSE /\ reqs' = [reqs EXCEPT ![s] =
                              [r0 EXCEPT !.pc = "save", !.id = nextId,
                                         !.doc = NewDoc(nextId, kind, u, dept, file.name)]]
                /\ nextId' = nextId + 1
                /\ out' = NoOut
                /\ UNCHANGED << unlinkIssued >>
  /\ UNCHANGED << router, repo, unlinkDone, tasks, moderations, reads, cmsVars, otherVars >>

\* (variant: the catch block answers 500 without deleting the upload)
SubmitCatchNoUnlink(s, step) ==
  /\ UNCHANGED unlinkIssued
  /\ Finish(s, 500, {}, step)

\* catch (error): delete the uploaded file, answer 500
SubmitCatch(s, step) ==
  /\ unlinkIssued' = Unlink(unlinkIssued, CleanupPaths(reqs[s].file))
  /\ Finish(s, 500, {}, step)

\* await note.save()
SubmitSave(s, ok) ==
  /\ reqs[s].op = "submit" /\ reqs[s].pc = "save"
  /\ IF ok
     THEN /\ repo' = [repo EXCEPT ![reqs[s].id] = reqs[s].doc]
          /\ reqs' = [reqs EXCEPT ![s].pc = "populate"]
          /\ out' = NoOut
          /\ UNCHANGED << unlinkIssued >>
     ELSE /\ SubmitCatch(s, "save")
          /\ UNCHANGED repo
  /\ UNCHANGED << router, nextId, files, nextFile, unlinkDone, tasks, calls, cmsVars, otherVars >>

\* (variant: every upload notifies, approved or not)
NotifyOnSubmitAlways(doc) == TRUE

\* if (note.isApproved) { ...find the interested users, schedule the fan-out... }
NotifyOnSubmit(doc) == doc.isApproved

\* await note.populate('uploadedBy', ...); non-approved uploads answer here
SubmitPopulate(s, ok) ==
  /\ reqs[s].op = "submit" /\ reqs[s].pc = "populate"
  /\ IF ~ok THEN SubmitCatch(s, "populate")
     ELSE IF NotifyOnSubmit(reqs[s].doc)
     THEN /\ reqs' = [reqs EXCEPT ![s].pc = "userFind"]
          /\ out' = NoOut
          /\ UNCHANGED << unlinkIssued >>
     ELSE /\ Finish(s, 201, {reqs[s].doc}, "")
          /\ UNCHANGED unlinkIssued
  /\ UNCHANGED << router, repo, nextId, files, nextFile, unlinkDone, tasks, calls, cmsVars, otherVars >>

\* await User.find(...), setImmediate(fan-out), res.status(201)
SubmitUserFind(s, ok) ==
  /\ reqs[s].op = "submit" /\ reqs[s].pc = "userFind"
  /\ IF ok
     THEN /\ tasks' = ScheduleFanout(tasks,
                         InterestedUsers(reqs[s].doc.department, reqs[s].kind, reqs[s].user),
                         reqs[s].doc, "submit")
          /\ Finish(s, 201, {reqs[s].doc}, "")
          /\ UNCHANGED unlinkIssued
     ELSE /\ SubmitCatch(s, "userFind")
          /\ UNCHANGED tasks
  /\ UNCHANGED << router, repo, nextId, files, nextFile, unlinkDone, calls, cmsVars, otherVars >>

\* ------------------------------------------- PATCH /:id/approve (moderation)
\* (variant: the approver is taken from the document instead of the request)
ApproveFieldsByUploader(doc, user, t) ==
  [doc EXCEPT !.isApproved = TRUE, !.approvedBy = doc.uploadedBy, !.approvedAt = t]

\* note.isApproved = true; note.approvedBy = req.user._id; note.approvedAt = new Date()
ApproveFields(doc, user, t) ==
  [doc EXCEPT !.isApproved = TRUE, !.approvedBy = user, !.approvedAt = t]

\* (variant: a save on an item that is already approved writes nothing)
SaveApprovalFirstWins(stored, doc) ==
  IF stored.isApproved THEN stored
  ELSE [stored EXCEPT !.isApproved = doc.isApproved, !.approvedBy = doc.approvedBy,
                      !.approvedAt = doc.approvedAt]

\* note.save() of a loaded document: writes back the paths the handler modified
SaveApproval(stored, doc) ==
  [stored EXCEPT !.isApproved = doc.isApproved, !.approvedBy = doc.approvedBy,
                 !.approvedAt = doc.approvedAt]

\* if (fs.existsSync(filePath)) fs.unlink(filePath, ...)
RejectCleanupPaths(doc) ==
  IF JoinServerDir(doc.fileUrl) \in files THEN {JoinServerDir(doc.fileUrl)} ELSE {}

\* auth, teacherAuth; the handler issues findById
ModerateRequest(s, u, kind, id, approved, reason) ==
  /\ CanStart(s)
  /\ auth(u) /\ teacherAuth(u)
  /\ moderations' = moderations + 1
  /\ reqs' = [reqs EXCEPT ![s] =
                [Idle EXCEPT !.op = "moderate", !.pc = "find", !.kind = kind, !.user = u,
                             !.id = id, !.approved = approved, !.reason = reason, !.t0 = now + 1]]
  /\ out' = NoOut
  /\ UNCHANGED << router, repo, nextId, files, nextFile, unlinkIssued, unlinkDone, tasks,
                  uploads, reads, cmsVars, otherVars >>

\* A moderation request, within the number of them a behaviour follows
StartModerate(s, u, kind, id, approved, reason) ==
  /\ moderations < MaxModerations
  /\ ModerateRequest(s, u, kind, id, approved, reason)

\* An approve request (approved = true, no rejectionReason), within the number
\* of them a behaviour of the repeated-approve scenario follows
StartApprove(s, u, kind, id) ==
  /\ moderations < MaxApproves
  /\ ModerateRequest(s, u, kind, id, TRUE, FALSE)

\* await findById(...).populate('uploadedBy'); then, up to the next await, either
\* the approval fields are set on the loaded document or the rejected file is unlinked
ModerateFind(s, ok) ==
  /\ reqs[s].op = "moderate" /\ reqs[s].pc = "find"
  /\ LET note == FindById(reqs[s].kind, reqs[s].id)
     IN IF ~ok
        THEN /\ Finish(s, 500, {}, "find")
             /\ UNCHANGED unlinkIssued
        ELSE IF note = NoItem
        THEN /\ Finish(s, 404, {}, "")
             /\ UNCHANGED unlinkIssued
        ELSE IF reqs[s].approved
        THEN /\ reqs' = [reqs EXCEPT ![s].pc = "userFind",
                                     ![s].doc = ApproveFields(note, reqs[s].user, now)]
             /\ out' = NoOut
             /\ UNCHANGED << unlinkIssued >>
        ELSE /\ unlinkIssued' = Unlink(unlinkIssued, RejectCleanupPaths(note))
             /\ reqs' = [reqs EXCEPT ![s].pc = "delete", ![s].doc = note]
             /\ out' = NoOut
  /\ UNCHANGED << router, repo, nextId, files, nextFile, unlinkDone, tasks, calls, cmsVars, otherVars >>

\* await User.find(...); setImmediate(fan-out); the handler goes on to note.save()
ModerateUserFind(s, ok) ==
  /\ reqs[s].op = "moderate" /\ reqs[s].pc = "userFind"
  /\ IF ok
     THEN /\ tasks' = ScheduleFanout(tasks,
                         InterestedUsers(reqs[s].doc.department, reqs[s].kind,
                                         reqs[s].doc.uploadedBy),
                         reqs[s].doc, "approve")
          /\ reqs' = [reqs EXCEPT ![s].pc = "save"]
          /\ out' = NoOut
     ELSE /\ Finish(s, 500, {}, "userFind")
          /\ UNCHANGED tasks
  /\ UNCHANGED << router, repo, nextId, files, nextFile, unlinkIssued, unlinkDone, calls, cmsVars, otherVars >>

\* await note.save(); res.json({message, note}).  A save of a document that was
\* deleted meanwhile updates nothing: depending on the mongoose version it
\* throws DocumentNotFoundError (strict, 500) or resolves
ModerateSave(s, ok, strict) ==
  /\ reqs[s].op = "moderate" /\ reqs[s].pc = "save"
  /\ IF ok /\ Exists(reqs[s].id)
     THEN /\ repo' = [repo EXCEPT ![reqs[s].id] = SaveApproval(@, reqs[s].doc)]
          /\ Finish(s, 200, {reqs[s].doc}, "")
     ELSE IF ok /\ ~strict
     THEN /\ Finish(s, 200, {reqs[s].doc}, "")
          /\ UNCHANGED repo
     ELSE /\ Finish(s, 500, {}, "save")
          /\ UNCHANGED repo
  /\ UNCHANGED << router, nextId, files, nextFile, unlinkIssued, unlinkDone, tasks, calls, cmsVars, otherVars >>

\* await findByIdAndDelete(req.params.id); then the rejection mail is sent and
\* awaited if a rejectionReason was given, else the handler answers
ModerateDelete(s, ok) ==
  /\ reqs[s].op = "moderate" /\ reqs[s].pc = "delete"
  /\ IF ~ok
     THEN /\ Finish(s, 500, {}, "delete")
          /\ UNCHANGED repo
     ELSE /\ repo' = [repo EXCEPT ![reqs[s].id] = NoItem]
          /\ IF reqs[s].reason
             THEN /\ reqs' = [reqs EXCEPT ![s].pc = "rejectMail"]
                  /\ out' = NoOut
             ELSE Finish(s, 200, {}, "")
  /\ UNCHANGED << router, nextId, files, nextFile, unlinkIssued, unlinkDone, tasks, calls, cmsVars, otherVars >>

\* (variant: a failed rejection mail reaches the route's catch block)
ModerateRejectMailPropagates(s, ok) ==
  /\ reqs[s].op = "moderate" /\ reqs[s].pc = "rejectMail"
  /\ IF ok THEN Finish(s, 200, {}, "") ELSE Finish(s, 500, {}, "mail")
  /\ UNCHANGED << router, repo, nextId, files, nextFile, unlinkIssued, unlinkDone, tasks, calls, cmsVars, otherVars >>

\* await emailService.sendEmail(uploader, ...) settles; a failure is caught and logged
ModerateRejectMail(s, ok) ==
  /\ reqs[s].op = "moderate" /\ reqs[s].pc = "rejectMail"
  /\ Finish(s, 200, {}, IF ok THEN "" ELSE "mail")
  /\ UNCHANGED << router, repo, nextId, files, nextFile, unlinkIssued, unlinkDone, tasks, calls, cmsVars, otherVars >>

\* ------------------------------------------------------ GET / and GET /:id
\* Neither route runs an authentication middleware: req.user stays undefined
PublicReqUser(caller) == NoUser

\* const { approved = 'true' } = req.query; if (approved === 'true') filter.isApproved = true
ListFilter(item, kind, approved) ==
  /\ item.id # 0
  /\ item.kind = kind
  /\ (approved = "absent" \/ approved = "true") => item.isApproved

\* GET /: Notes.find(filter)
List(s, u, kind, approved) ==
  /\ CanStart(s)
  /\ reads < MaxReads
  /\ reads' = reads + 1
  /\ \E ok \in BOOLEAN :
       LET r0 == [Idle EXCEPT !.op = "list", !.kind = kind, !.user = u, !.query = approved]
       IN out' = IF ok
                 THEN Response(r0, 200, {repo[i] : i \in {j \in Ids : ListFilter(repo[j], kind, approved)}}, "")
                 ELSE Response(r0, 500, {}, "find")
  /\ UNCHANGED << router, repo, nextId, files, nextFile, unlinkIssued, unlinkDone, reqs, tasks,
                  uploads, moderations, cmsVars, otherVars >>

\* if (!note.isApproved && (!req.user || (req.user._id !== note.uploadedBy._id &&
\*     req.user.role !== 'admin' && req.user.role !== 'teacher'))) -> 403
DetailDenied(note, reqUser) ==
  /\ ~note.isApproved
  /\ \/ reqUser = NoUser
     \/ (reqUser # note.uploadedBy /\ Role(reqUser) # "admin" /\ Role(reqUser) # "teacher")

\* GET /:id
Detail(s, u, kind, id) ==
  /\ CanStart(s)
  /\ reads < MaxReads
  /\ reads' = reads + 1
  /\ \E ok \in BOOLEAN :
       LET r0 == [Idle EXCEPT !.op = "detail", !.kind = kind, !.user = u, !.id = id]
           note == FindById(kind, id)
       IN out' = IF ~ok THEN Response(r0, 500, {}, "find")
                 ELSE IF note = NoItem THEN Response(r0, 404, {}, "")
                 ELSE IF DetailDenied(note, PublicReqUser(u)) THEN Response(r0, 403, {}, "")
                 ELSE Response(r0, 200, {note}, "")
  /\ UNCHANGED << router, repo, nextId, files, nextFile, unlinkIssued, unlinkDone, reqs, tasks,
                  uploads, moderations, cmsVars, otherVars >>

\* --------------------------------------------------------- GET /:id/download
\* note.downloads += 1 on the loaded document
CountDownload(doc) == [doc EXCEPT !.downloads = @ + 1]

\* GET /:id/download up to its first await after findById: not found, not
\* approved, file missing on disk, or the counter raised and save() issued
Download(s, kind, id, ok) ==
  /\ CanStart(s)
  /\ reads < MaxReads
  /\ reads' = reads + 1
  /\ LET r0 == [Idle EXCEPT !.op = "download", !.kind = kind, !.id = id]
         note == FindById(kind, id)
     IN IF ~ok
        THEN out' = Response(r0, 500, {}, "find") /\ UNCHANGED reqs
        ELSE IF note = NoItem
        THEN out' = Response(r0, 404, {}, "") /\ UNCHANGED reqs
        ELSE IF ~note.isApproved
        THEN out' = Response(r0, 403, {}, "") /\ UNCHANGED reqs
        ELSE IF JoinServerDir(note.fileUrl) \notin files
        THEN out' = Response([r0 EXCEPT !.doc = note], 404, {}, "file") /\ UNCHANGED reqs
        ELSE /\ reqs' = [reqs EXCEPT ![s] = [r0 EXCEPT !.pc = "dlSave", !.doc = CountDownload(note)]]
             /\ out' = NoOut
  /\ UNCHANGED << router, repo, nextId, files, nextFile, unlinkIssued, unlinkDone, tasks,
                  uploads, moderations, cmsVars, otherVars >>

\* await note.save() of the download route, then res.sendFile(filePath)
\* (no behaviour reaches this step: upload stores the file outside the
\* directory fileUrl names, so Download always ends at its existsSync test)
DownloadSave(s, ok) ==
  /\ reqs[s].op = "download" /\ reqs[s].pc = "dlSave"
  /\ IF ok /\ Exists(reqs[s].id)
     THEN /\ repo' = [repo EXCEPT ![reqs[s].id].downloads = reqs[s].doc.downloads]
          /\ Finish(s, 200, {reqs[s].doc}, "")
     ELSE /\ Finish(s, 500, {}, "save")
          /\ UNCHANGED repo
  /\ UNCHANGED << router, nextId, files, nextFile, unlinkIssued, unlinkDone, tasks, calls, cmsVars, otherVars >>

\* ------------------------- college-management-system backend: POST /api/notes
\* authorize('student', 'teacher', 'admin')
authorize(u) == Role(u) \in {"student", "teacher", "admin"}

\* status: req.user.role === 'teacher' || req.user.role === 'admin' ? 'approved' : 'pending'
CmsStatusOnCreate(role) == IF role = "teacher" \/ role = "admin" THEN "approved" ELSE "pending"

\* Fields of the request body the Note schema knows (absent ones take no part)
CmsBodies ==
  { << >>, [status |-> "approved"], [status |-> "rejected"], [uploadedBy |-> 1],
    [status |-> "approved", approvedBy |-> 1] }

\* { ...req.body, uploadedBy: req.user.id, status: ... }: later keys win
CmsNoteData(body, u) ==
  [uploadedBy |-> u, status |-> CmsStatusOnCreate(Role(u))] @@ body

\* new Note(noteData): schema defaults for what noteData leaves out
CmsNewNote(data) ==
  data @@ [status |-> "pending", approvedBy |-> NoUser, isActive |-> TRUE,
           likes |-> << >>, views |-> << >>, downloads |-> << >>, comments |-> << >>, v |-> 0]

\* The whole handler: Course.findById, new Note(noteData).save(), populate, 201
CmsCreate(u, body, courseFound, ok) ==
  /\ Len(cmsNotes) < MaxCmsCreates
  /\ auth(u) /\ authorize(u)
  /\ IF ~courseFound
     THEN /\ cmsResp' = [NoCmsResp EXCEPT !.op = "create", !.user = u, !.status = 400]
          /\ UNCHANGED cmsNotes
     ELSE IF ~ok
     THEN /\ cmsResp' = [NoCmsResp EXCEPT !.op = "create", !.user = u, !.status = 500]
          /\ UNCHANGED cmsNotes
     ELSE /\ cmsNotes' = Append(cmsNotes, CmsNewNote(CmsNoteData(body, u)))
          /\ cmsResp' = [NoCmsResp EXCEPT !.op = "create", !.user = u, !.status = 201,
                                          !.note = Len(cmsNotes) + 1]
  /\ out' = NoOut
  /\ UNCHANGED << router, repo, nextId, files, nextFile, unlinkIssued, unlinkDone, reqs, tasks, calls,
                  cmsReqs, cmsOps, otherVars >>

\* ------- college-management-system backend: requests on an existing note
serverVars == << router, repo, nextId, files, nextFile, unlinkIssued, unlinkDone, reqs, tasks, calls >>

\* The array paths of the Note schema
CmsArrays == {"likes", "views", "downloads", "comments"}

\* Note.findOne({_id, isActive: true [, status: 'approved']}): the note's index, 0 for null
CmsFindOne(id, approvedOnly) ==
  IF /\ id \in 1..Len(cmsNotes)
     /\ cmsNotes[id].isActive
     /\ approvedOnly => cmsNotes[id].status = "approved"
  THEN id ELSE 0

\* note.<array>.find(entry => entry.user.toString() === req.user.id) is defined
Has(arr, u) == \E i \in 1..Len(arr) : arr[i] = u

\* A request is taken up by the lowest free slot
CmsCanStart(s) ==
  /\ cmsReqs[s] = CmsIdle
  /\ \A t \in Slots : t < s => cmsReqs[t] # CmsIdle
  /\ cmsOps < MaxCmsOps

\* res.status(status).json(...)
CmsResponse(op, u, status, n, liked, count) ==
  [user |-> u, status |-> status, note |-> n, op |-> op, liked |-> liked, count |-> count]

\* A handler answers before any save(), or goes on to save() with frame fr
CmsAnswer(s, resp) ==
  /\ cmsResp' = resp
  /\ cmsOps' = cmsOps + 1
  /\ out' = NoOut
  /\ UNCHANGED << cmsNotes, cmsReqs, serverVars, otherVars >>

CmsGoSave(s, fr) ==
  /\ cmsReqs' = [cmsReqs EXCEPT ![s] = fr]
  /\ cmsResp' = NoCmsResp
  /\ cmsOps' = cmsOps + 1
  /\ out' = NoOut
  /\ UNCHANGED << cmsNotes, serverVars, otherVars >>

\* The update save() sends for a loaded document: $set of the assigned paths,
\* $push of the pushed entry, and the version increment of array changes
CmsWrite(stored, fr) ==
  LET set == [k \in DOMAIN stored |-> IF k \in DOMAIN fr.sets THEN fr.sets[k] ELSE stored[k]]
      pushed == IF fr.push = "" THEN set ELSE [set EXCEPT ![fr.push] = Append(@, fr.user)]
      arrays == fr.push # "" \/ (DOMAIN fr.sets \cap CmsArrays) # {}
  IN [pushed EXCEPT !.v = IF arrays THEN @ + 1 ELSE @]

\* await note.save() and the response after it.  An array assigned as a whole
\* is saved with the loaded version in the query: a version changed meanwhile
\* gives VersionError, which the route's catch turns into 500
CmsSave(s, ok) ==
  /\ cmsReqs[s].op # "idle"
  /\ LET fr == cmsReqs[s]
         stale == fr.where /\ cmsNotes[fr.note].v # fr.v
     IN IF ok /\ ~stale
        THEN /\ cmsNotes' = [cmsNotes EXCEPT ![fr.note] = CmsWrite(@, fr)]
             /\ cmsResp' = CmsResponse(fr.op, fr.user, IF fr.op = "comment" THEN 201 ELSE 200,
                                       fr.note, fr.liked, fr.count)
        ELSE /\ cmsResp' = CmsResponse(fr.op, fr.user, 500, fr.note, FALSE, 0)
             /\ UNCHANGED cmsNotes
  /\ cmsReqs' = [cmsReqs EXCEPT ![s] = CmsIdle]
  /\ out' = NoOut
  /\ UNCHANGED << cmsOps, serverVars, otherVars >>

\* (variant: a like request always adds the user)
LikeToggleAlwaysAdds(likes, u) == Append(likes, u)

\* existingLike ? note.likes.filter(like => like.user !== req.user.id)
\*              : note.likes.push({user: req.user.id, ...})
LikeToggle(likes, u) ==
  IF Has(likes, u) THEN SelectSeq(likes, LAMBDA x : x # u) ELSE Append(likes, u)

\* POST /:id/like up to note.save()
CmsLike(s, u, id, ok) ==
  /\ CmsCanStart(s)
  /\ auth(u)
  /\ LET n == CmsFindOne(id, TRUE)
     IN IF ~ok THEN CmsAnswer(s, CmsResponse("like", u, 500, 0, FALSE, 0))
        ELSE IF n = 0 THEN CmsAnswer(s, CmsResponse("like", u, 404, 0, FALSE, 0))
        ELSE LET existingLike == Has(cmsNotes[n].likes, u)
                 likes == LikeToggle(cmsNotes[n].likes, u)
             IN CmsGoSave(s, [CmsIdle EXCEPT !.op = "like", !.user = u, !.note = n,
                                             !.sets = IF existingLike THEN [likes |-> likes] ELSE << >>,
                                             !.push = IF existingLike THEN "" ELSE "likes",
                                             !.where = existingLike, !.v = cmsNotes[n].v,
                                             !.liked = ~existingLike, !.count = Len(likes)])

\* POST /:id/comment up to note.save(); the validate middleware answers 400
CmsComment(s, u, id, valid, ok) ==
  /\ CmsCanStart(s)
  /\ auth(u)
  /\ LET n == CmsFindOne(id, TRUE)
     IN IF ~valid THEN CmsAnswer(s, CmsResponse("comment", u, 400, 0, FALSE, 0))
        ELSE IF ~ok THEN CmsAnswer(s, CmsResponse("comment", u, 500, 0, FALSE, 0))
        ELSE IF n = 0 THEN CmsAnswer(s, CmsResponse("comment", u, 404, 0, FALSE, 0))
        ELSE CmsGoSave(s, [CmsIdle EXCEPT !.op = "comment", !.user = u, !.note = n,
                                          !.push = "comments", !.v = cmsNotes[n].v,
                                          !.count = Len(cmsNotes[n].comments) + 1])

\* (variant: a download is recorded once per user, the way views are)
CmsTracksDownloadOncePerUser(note, u) == ~Has(note.downloads, u)

\* note.downloads.push({user, downloadedAt, ipAddress}) is unconditional
CmsTracksDownload(note, u) == TRUE

\* POST /:id/download up to note.save()
CmsDownload(s, u, id, ok) ==
  /\ CmsCanStart(s)
  /\ auth(u)
  /\ LET n == CmsFindOne(id, TRUE)
     IN IF ~ok THEN CmsAnswer(s, CmsResponse("download", u, 500, 0, FALSE, 0))
        ELSE IF n = 0 THEN CmsAnswer(s, CmsResponse("download", u, 404, 0, FALSE, 0))
        ELSE IF CmsTracksDownload(cmsNotes[n], u)
        THEN CmsGoSave(s, [CmsIdle EXCEPT !.op = "download", !.user = u, !.note = n,
                                          !.push = "downloads", !.v = cmsNotes[n].v,
                                          !.count = Len(cmsNotes[n].downloads) + 1])
        ELSE CmsGoSave(s, [CmsIdle EXCEPT !.op = "download", !.user = u, !.note = n,
                                          !.v = cmsNotes[n].v,
                                          !.count = Len(cmsNotes[n].downloads)])

\* note.status !== 'approved' && (!req.user || (req.user.role === 'student' &&
\*   note.uploadedBy._id.toString() !== req.user.id))
CmsDetailDenied(note, u) ==
  /\ note.status # "approved"
  /\ u = NoUser \/ (Role(u) = "student" /\ note.uploadedBy # u)

\* if (req.user) { existingView = note.views.find(...); if (!existingView) push + save }
CmsTracksView(note, u) == u # NoUser /\ ~Has(note.views, u)

\* GET /:id (optionalAuth: u is NoUser without a valid token) up to note.save()
CmsDetail(s, u, id, ok) ==
  /\ CmsCanStart(s)
  /\ LET n == CmsFindOne(id, FALSE)
     IN IF ~ok THEN CmsAnswer(s, CmsResponse("detail", u, 500, 0, FALSE, 0))
        ELSE IF n = 0 THEN CmsAnswer(s, CmsResponse("detail", u, 404, 0, FALSE, 0))
        ELSE IF CmsDetailDenied(cmsNotes[n], u)
        THEN CmsAnswer(s, CmsResponse("detail", u, 403, n, FALSE, 0))
        ELSE IF CmsTracksView(cmsNotes[n], u)
        THEN CmsGoSave(s, [CmsIdle EXCEPT !.op = "detail", !.user = u, !.note = n,
                                          !.push = "views", !.v = cmsNotes[n].v,
                                          !.count = Len(cmsNotes[n].views) + 1])
        ELSE CmsAnswer(s, CmsResponse("detail", u, 200, n, FALSE, Len(cmsNotes[n].views)))

\* Request bodies of PUT /:id, by the Note paths they carry
CmsUpdateBodies ==
  { [status |-> "approved"], [status |-> "pending"], [status |-> "rejected"],
    [uploadedBy |-> 2], [approvedBy |-> NoUser], [downloads |-> << >>] }

\* Object.keys(req.body).forEach(key => note[key] = req.body[key]);
\* if (req.body.status === 'approved' && canModerate) note.approvedBy = req.user.id
CmsAssign(note, body, u, canModerate) ==
  LET copied == [k \in DOMAIN note |-> IF k \in DOMAIN body THEN body[k] ELSE note[k]]
  IN IF "status" \in DOMAIN body /\ body.status = "approved" /\ canModerate
     THEN [copied EXCEPT !.approvedBy = u]
     ELSE copied

\* The paths of a loaded document that its assignments changed
CmsModified(note, local) == {k \in DOMAIN note : local[k] # note[k]}

\* PUT /:id up to note.save()
CmsUpdate(s, u, id, body, ok) ==
  /\ CmsCanStart(s)
  /\ auth(u) /\ authorize(u)
  /\ LET n == CmsFindOne(id, FALSE)
     IN IF ~ok THEN CmsAnswer(s, CmsResponse("update", u, 500, 0, FALSE, 0))
        ELSE IF n = 0 THEN CmsAnswer(s, CmsResponse("update", u, 404, 0, FALSE, 0))
        ELSE LET note == cmsNotes[n]
                 isOwner == note.uploadedBy = u
                 canModerate == Role(u) = "teacher" \/ Role(u) = "admin"
                 local == CmsAssign(note, body, u, canModerate)
                 modified == CmsModified(note, local)
             IN IF ~isOwner /\ ~canModerate
                THEN CmsAnswer(s, CmsResponse("update", u, 403, n, FALSE, 0))
                ELSE IF "status" \in DOMAIN body /\ ~canModerate
                THEN CmsAnswer(s, CmsResponse("update", u, 403, n, FALSE, 0))
                ELSE CmsGoSave(s, [CmsIdle EXCEPT !.op = "update", !.user = u, !.note = n,
                                                  !.sets = [k \in modified |-> local[k]],
                                                  !.where = (modified \cap CmsArrays) # {},
                                                  !.v = note.v])

\* DELETE /:id (soft delete) up to note.save()
CmsDelete(s, u, id, ok) ==
  /\ CmsCanStart(s)
  /\ auth(u) /\ authorize(u)
  /\ LET n == CmsFindOne(id, FALSE)
     IN IF ~ok THEN CmsAnswer(s, CmsResponse("delete", u, 500, 0, FALSE, 0))
        ELSE IF n = 0 THEN CmsAnswer(s, CmsResponse("delete", u, 404, 0, FALSE, 0))
        ELSE IF Role(u) # "admin" /\ cmsNotes[n].uploadedBy # u
        THEN CmsAnswer(s, CmsResponse("delete", u, 403, n, FALSE, 0))
        ELSE CmsGoSave(s, [CmsIdle EXCEPT !.op = "delete", !.user = u, !.note = n,
                                          !.sets = [isActive |-> FALSE], !.v = cmsNotes[n].v])

\* ------------------------------------------------- paginated list requests
Min(a, b) == IF a < b THEN a ELSE b

\* Math.ceil(a / b) for a >= 0, b >= 1
Ceil(a, b) == (a + b - 1) \div b

\* String.prototype.toLowerCase, on the letters the stored texts are written in
LowerChar(c) == IF c = "M" THEN "m" ELSE IF c = "A" THEN "a" ELSE IF c = "B" THEN "b" ELSE c
Lower(str) == [i \in 1..Len(str) |-> LowerChar(str[i])]

\* new RegExp(term, 'i').test(text) for a term of letters: the term occurs in
\* the text, whatever the case
RegexI(text, term) == Includes(Lower(text), Lower(term))

\* The stored notes a list request runs over, in order of creation
Catalogue ==
  [i \in 1..MaxItems |->
     [id |-> i,
      isApproved |-> (i % 4 # 0), status |-> IF i % 4 # 0 THEN "approved" ELSE "pending",
      isActive |-> TRUE,
      department |-> IF i % 3 = 0 THEN "EE" ELSE "CS",
      semester |-> 1 + (i % 2),
      subject |-> IF i % 2 = 0 THEN << "M" >> ELSE << "b" >>,
      title |-> IF i % 3 = 1 THEN << "a", "b" >> ELSE << "B", "m" >>,
      description |-> IF i = 2 THEN << "a" >> ELSE << "m", "m" >>,
      chapter |-> << >>, topic |-> << >>,
      tags |-> IF i = 5 THEN << << "a" >> >> ELSE << >>,
      visibility |-> IF i % 3 = 0 THEN "public" ELSE "course"]]

\* .sort({createdAt: -1}): newest first
Reverse(seq) == [i \in 1..Len(seq) |-> seq[Len(seq) + 1 - i]]

\* .skip(skip).limit(limit)
SkipLimit(seq, skip, limit) == SubSeq(seq, skip + 1, Min(Len(seq), skip + limit))

\* { tags: regex }: some element of the array matches
AnyTag(tags, term) == \E i \in 1..Len(tags) : RegexI(tags[i], term)

\* server GET /: the filter object built from the query string
ListMatches(item, q) ==
  /\ (q.approved \in {"absent", "true"}) => item.isApproved
  /\ (q.department # "" /\ q.department # "all") => item.department = q.department
  /\ q.semester # 0 => item.semester = q.semester
  /\ q.subject # << >> => RegexI(item.subject, q.subject)
  /\ q.search # << >> =>
       \/ RegexI(item.title, q.search)
       \/ RegexI(item.description, q.search)
       \/ AnyTag(item.tags, q.search)

\* (variant: hasNext computed as page * limit <= totalCount)
ListHasNextInclusive(skip, len, total) == skip + len <= total

\* hasNext: skip + notes.length < totalCount
ListHasNext(skip, len, total) == skip + len < total

\* server GET /: find(filter).sort().skip().limit() and countDocuments(filter)
\* against the same collection, then the response envelope.  A behaviour
\* follows one list request from the query to the response
ListPage(q, ok) ==
  /\ listResp = NoListResp
  /\ LET page == IF q.page = 0 THEN 1 ELSE q.page
         limit == IF q.limit = 0 THEN 12 ELSE q.limit
         skip == (page - 1) * limit
         Test(item) == ListMatches(item, q)
         found == Reverse(SelectSeq(Catalogue, Test))
         notes == SkipLimit(found, skip, limit)
         totalCount == Len(found)
         r0 == [NoListResp EXCEPT !.backend = "server", !.query = q]
     IN listResp' =
          IF ok
          THEN [r0 EXCEPT !.status = 200, !.notes = notes, !.total = totalCount,
                          !.pages = Ceil(totalCount, limit), !.current = page,
                          !.hasNext = ListHasNext(skip, Len(notes), totalCount),
                          !.hasPrev = page > 1]
          ELSE [r0 EXCEPT !.status = 500]
  /\ out' = NoOut
  /\ UNCHANGED << serverVars, cmsVars, eventVars, userVars >>

\* college-management-system: the course and semester of a user's profile
CmsUserCourse(u) == UserTable[u].department
CmsUserSemester(u) == 1

\* college-management-system GET /api/notes: the filter object.  filter.status
\* is 'approved' for students and anonymous callers and the status parameter
\* for teachers and admins; the student branch assigns filter.$or after the
\* search branch did
CmsListFilter(u, q) ==
  LET staff == Role(u) \in {"teacher", "admin"}
      student == Role(u) = "student"
  IN [status |-> IF u = NoUser \/ student THEN "approved"
                 ELSE IF q.status # "" /\ staff THEN q.status ELSE "",
      course |-> q.department,
      semester |-> q.semester,
      subject |-> q.subject,
      or |-> IF student THEN "profile" ELSE IF q.search # << >> THEN "search" ELSE ""]

CmsListMatches(item, f, u, q) ==
  /\ item.isActive
  /\ f.status # "" => item.status = f.status
  /\ f.course # "" => item.department = f.course
  /\ f.semester # 0 => item.semester = f.semester
  /\ f.subject # << >> => RegexI(item.subject, f.subject)
  /\ f.or = "search" =>
       \/ RegexI(item.title, q.search)
       \/ RegexI(item.description, q.search)
       \/ RegexI(item.subject, q.search)
       \/ RegexI(item.chapter, q.search)
       \/ RegexI(item.topic, q.search)
       \/ AnyTag(item.tags, q.search)
  /\ f.or = "profile" =>
       \/ (item.department = CmsUserCourse(u) /\ item.semester = CmsUserSemester(u))
       \/ item.visibility = "public"

\* college-management-system GET /api/notes: find, countDocuments, envelope
CmsList(u, q, ok) ==
  /\ listResp = NoListResp
  /\ LET page == IF q.page = 0 THEN 1 ELSE q.page
         limit == IF q.limit = 0 THEN 10 ELSE q.limit
         skip == (page - 1) * limit
         f == CmsListFilter(u, q)
         Test(item) == CmsListMatches(item, f, u, q)
         found == Reverse(SelectSeq(Catalogue, Test))
         notes == SkipLimit(found, skip, limit)
         total == Len(found)
         r0 == [NoListResp EXCEPT !.backend = "cms", !.user = u, !.query = q]
     IN listResp' =
          IF ok
          THEN [r0 EXCEPT !.status = 200, !.notes = notes, !.total = total,
                          !.pages = Ceil(total, limit), !.current = page,
                          !.hasNext = page * limit < total,
                          !.hasPrev = page > 1]
          ELSE [r0 EXCEPT !.status = 500]
  /\ out' = NoOut
  /\ UNCHANGED << serverVars, cmsVars, eventVars, userVars >>

\* ------------------------------ college-management-system backend: events
workflowVars == << serverVars, out, cmsVars >>

\* authorize('teacher', 'admin') and authorize('student')
authorizeStaff(u) == Role(u) \in {"teacher", "admin"}
authorizeStudent(u) == Role(u) = "student"

\* Request bodies of POST /api/events: the fields registration depends on
EvBodies ==
  [status : {"draft", "published"}, registrationRequired : BOOLEAN, maxParticipants : {0, 1, 2}]

\* new Event({...req.body, organizer: req.user.id}) with the schema defaults;
\* maxParticipants 0 stands for an absent value
EvNewEvent(body, u) ==
  [status |-> body.status, organizer |-> u, isActive |-> TRUE,
   registrationRequired |-> body.registrationRequired,
   maxParticipants |-> body.maxParticipants,
   targetRoles |-> {"student"}, registeredUsers |-> << >>, v |-> 0]

\* POST /api/events, the whole handler
EvCreate(u, body, valid, ok) ==
  /\ Len(events) < MaxEvents
  /\ auth(u) /\ authorizeStaff(u)
  /\ IF ~valid
     THEN /\ evResp' = [NoEvResp EXCEPT !.op = "create", !.user = u, !.status = 400]
          /\ UNCHANGED events
     ELSE IF ~ok
     THEN /\ evResp' = [NoEvResp EXCEPT !.op = "create", !.user = u, !.status = 500]
          /\ UNCHANGED events
     ELSE /\ events' = Append(events, EvNewEvent(body, u))
          /\ evResp' = [NoEvResp EXCEPT !.op = "create", !.user = u, !.status = 201,
                                        !.event = Len(events) + 1]
  /\ UNCHANGED << evReqs, evMails, evOps, workflowVars, listVars, userVars >>

\* Event.findOne({_id, isActive: true [, status: 'published']}): index, 0 for null
EvFindOne(id, publishedOnly) ==
  IF /\ id \in 1..Len(events)
     /\ events[id].isActive
     /\ publishedOnly => events[id].status = "published"
  THEN id ELSE 0

\* A request is taken up by the lowest free slot
EvCanStart(s) ==
  /\ evReqs[s] = EvIdle
  /\ \A t \in Slots : t < s => evReqs[t] # EvIdle
  /\ evOps < MaxEvOps

\* A handler answers before any save(), or goes on to save() with frame fr
EvAnswer(s, op, u, id, status) ==
  /\ evResp' = [NoEvResp EXCEPT !.op = op, !.user = u, !.event = id, !.status = status]
  /\ evOps' = evOps + 1
  /\ UNCHANGED << events, evReqs, evMails, workflowVars, listVars, userVars >>

EvGoSave(s, fr) ==
  /\ evReqs' = [evReqs EXCEPT ![s] = fr]
  /\ evResp' = NoEvResp
  /\ evOps' = evOps + 1
  /\ UNCHANGED << events, evMails, workflowVars, listVars, userVars >>

\* Request bodies of PUT /api/events/:id
EvUpdateBodies == {[status |-> "published"], [status |-> "draft"], [status |-> "cancelled"]}

\* PUT /api/events/:id up to await event.save(): every key of the body is
\* assigned to the loaded event
EvUpdate(s, u, id, body, ok) ==
  /\ EvCanStart(s)
  /\ auth(u) /\ authorizeStaff(u)
  /\ LET n == EvFindOne(id, FALSE)
     IN IF ~ok THEN EvAnswer(s, "update", u, id, 500)
        ELSE IF n = 0 THEN EvAnswer(s, "update", u, id, 404)
        ELSE IF Role(u) # "admin" /\ events[n].organizer # u THEN EvAnswer(s, "update", u, id, 403)
        ELSE EvGoSave(s, [EvIdle EXCEPT !.op = "update", !.user = u, !.event = n,
                                        !.sets = IF body.status # events[n].status
                                                 THEN body ELSE << >>,
                                        !.body = body, !.status = body.status])

\* POST /api/events/:id/register up to await event.save()
EvRegister(s, u, id, late, ok) ==
  /\ EvCanStart(s)
  /\ auth(u) /\ authorizeStudent(u)
  /\ LET n == EvFindOne(id, TRUE)
     IN IF ~ok THEN EvAnswer(s, "register", u, id, 500)
        ELSE IF n = 0 THEN EvAnswer(s, "register", u, id, 404)
        ELSE IF ~events[n].registrationRequired THEN EvAnswer(s, "register", u, id, 400)
        ELSE IF late THEN EvAnswer(s, "register", u, id, 400)
        ELSE IF Has(events[n].registeredUsers, u) THEN EvAnswer(s, "register", u, id, 400)
        ELSE IF /\ events[n].maxParticipants # 0
                /\ Len(events[n].registeredUsers) >= events[n].maxParticipants
        THEN EvAnswer(s, "register", u, id, 400)
        ELSE EvGoSave(s, [EvIdle EXCEPT !.op = "register", !.user = u, !.event = n,
                                        !.push = TRUE, !.status = events[n].status])

\* registeredUsers.splice(registrationIndex, 1): the first entry of the user goes
SpliceFirst(arr, u) ==
  LET i == CHOOSE k \in 1..Len(arr) : arr[k] = u /\ \A j \in 1..(k - 1) : arr[j] # u
  IN SubSeq(arr, 1, i - 1) \o SubSeq(arr, i + 1, Len(arr))

\* DELETE /api/events/:id/register up to await event.save()
EvUnregister(s, u, id, ok) ==
  /\ EvCanStart(s)
  /\ auth(u) /\ authorizeStudent(u)
  /\ LET n == EvFindOne(id, FALSE)
     IN IF ~ok THEN EvAnswer(s, "unregister", u, id, 500)
        ELSE IF n = 0 THEN EvAnswer(s, "unregister", u, id, 404)
        ELSE IF ~Has(events[n].registeredUsers, u) THEN EvAnswer(s, "unregister", u, id, 400)
        ELSE EvGoSave(s, [EvIdle EXCEPT !.op = "unregister", !.user = u, !.event = n,
                                        !.sets = [registeredUsers |->
                                                    SpliceFirst(events[n].registeredUsers, u)],
                                        !.where = TRUE, !.v = events[n].v,
                                        !.status = events[n].status])

\* The update save() sends: $set of the assigned paths, $push of the pushed
\* entry, and the version increment of array changes
EvWrite(stored, fr) ==
  LET set == [k \in DOMAIN stored |-> IF k \in DOMAIN fr.sets THEN fr.sets[k] ELSE stored[k]]
      pushed == IF fr.push THEN [set EXCEPT !.registeredUsers = Append(@, fr.user)] ELSE set
      arrays == fr.push \/ "registeredUsers" \in DOMAIN fr.sets
  IN [pushed EXCEPT !.v = IF arrays THEN @ + 1 ELSE @]

\* The users sendEventNotification is addressed to: active, e-mail-verified
\* users with a role in event.targetAudience.roles
EvAudience(event) == {u \in Users : Role(u) \in event.targetRoles}

\* if (req.body.status === 'published' && event.status !== 'published'), read
\* after the body was assigned to the event
EvNotifyOnUpdate(fr) == fr.body.status = "published" /\ fr.status # "published"

\* registrationCount: event.registredUsers.length -- the handler's document has
\* no such property, and reading .length of undefined throws
EvRegistrationCountThrows(event) == "registredUsers" \notin DOMAIN event

\* await event.save() and what the handler does after it: the update route
\* notifies and answers; the register route builds its response, and an
\* exception there reaches the catch block (500)
EvSave(s, ok) ==
  /\ evReqs[s].op # "idle"
  /\ LET fr == evReqs[s]
         stale == fr.where /\ events[fr.event].v # fr.v
         saved == EvWrite(events[fr.event], fr)
         r0 == [NoEvResp EXCEPT !.op = fr.op, !.user = fr.user, !.event = fr.event]
     IN IF ~ok \/ stale
        THEN /\ evResp' = [r0 EXCEPT !.status = 500]
             /\ UNCHANGED << events, evMails >>
        ELSE /\ events' = [events EXCEPT ![fr.event] = saved]
             /\ IF fr.op = "update"
                THEN /\ evMails' = IF EvNotifyOnUpdate(fr) /\ EvAudience(saved) # {}
                                   THEN Append(evMails, [event |-> fr.event, to |-> EvAudience(saved)])
                                   ELSE evMails
                     /\ evResp' = [r0 EXCEPT !.status = 200]
                ELSE IF fr.op = "register"
                THEN /\ evResp' = IF EvRegistrationCountThrows(saved)
                                  THEN [r0 EXCEPT !.status = 500]
                                  ELSE [r0 EXCEPT !.status = 200,
                                                  !.count = Len(saved.registeredUsers)]
                     /\ UNCHANGED evMails
                ELSE /\ evResp' = [r0 EXCEPT !.status = 200]
                     /\ UNCHANGED evMails
  /\ evReqs' = [evReqs EXCEPT ![s] = EvIdle]
  /\ UNCHANGED << evOps, workflowVars, listVars, userVars >>

\* ------------------------------------------- server: user administration
\* auth, adminAuth: the caller is a stored user whose role is admin
adminAuth(u) == u \in Users /\ accounts[u] = "admin"

\* A request is taken up by the lowest free slot
UsrCanStart(s) ==
  /\ usrReqs[s] = UsrIdle
  /\ \A t \in Slots : t < s => usrReqs[t] # UsrIdle
  /\ usrOps < MaxUserOps

UsrRespond(op, u, id, status) == [op |-> op, user |-> u, id |-> id, status |-> status]

\* A step of DELETE /:id answers and frees its slot
UsrFinish(s, status) ==
  /\ usrResp' = UsrRespond(usrReqs[s].op, usrReqs[s].user, usrReqs[s].id, status)
  /\ usrReqs' = [usrReqs EXCEPT ![s] = UsrIdle]

\* PATCH /:id/role, the whole handler: the role is validated and written with
\* one findByIdAndUpdate
UsrSetRole(u, id, role, ok) ==
  /\ usrOps < MaxUserOps
  /\ adminAuth(u)
  /\ usrOps' = usrOps + 1
  /\ IF role \notin {"student", "teacher", "admin"}
     THEN usrResp' = UsrRespond("role", u, id, 400) /\ UNCHANGED accounts
     ELSE IF ~ok
     THEN usrResp' = UsrRespond("role", u, id, 500) /\ UNCHANGED accounts
     ELSE IF accounts[id] = "none"
     THEN usrResp' = UsrRespond("role", u, id, 404) /\ UNCHANGED accounts
     ELSE /\ accounts' = [accounts EXCEPT ![id] = role]
          /\ usrResp' = UsrRespond("role", u, id, 200)
  /\ UNCHANGED << usrReqs, workflowVars, listVars, eventVars >>

\* DELETE /:id up to await User.findById
UsrDelete(s, u, id) ==
  /\ UsrCanStart(s)
  /\ adminAuth(u)
  /\ usrOps' = usrOps + 1
  /\ usrReqs' = [usrReqs EXCEPT ![s] = [op |-> "delete", pc |-> "find", user |-> u, id |-> id]]
  /\ usrResp' = NoUsrResp
  /\ UNCHANGED << accounts, workflowVars, listVars, eventVars >>

\* await User.findById(req.params.id); an admin goes on to be counted
UsrDeleteFind(s, ok) ==
  /\ usrReqs[s].op = "delete" /\ usrReqs[s].pc = "find"
  /\ IF ~ok THEN UsrFinish(s, 500)
     ELSE IF accounts[usrReqs[s].id] = "none" THEN UsrFinish(s, 404)
     ELSE /\ usrReqs' = [usrReqs EXCEPT ![s].pc =
                           IF accounts[usrReqs[s].id] = "admin" THEN "count" ELSE "remove"]
          /\ usrResp' = NoUsrResp
  /\ UNCHANGED << accounts, usrOps, workflowVars, listVars, eventVars >>

\* if (adminCount <= 1): Cannot delete the last admin user
LastAdmin(adminCount) == adminCount <= 1

\* await User.countDocuments({role: 'admin'})
UsrDeleteCount(s, ok) ==
  /\ usrReqs[s].op = "delete" /\ usrReqs[s].pc = "count"
  /\ LET adminCount == Cardinality({u \in Users : accounts[u] = "admin"})
     IN IF ~ok THEN UsrFinish(s, 500)
        ELSE IF LastAdmin(adminCount) THEN UsrFinish(s, 400)
        ELSE /\ usrReqs' = [usrReqs EXCEPT ![s].pc = "remove"]
             /\ usrResp' = NoUsrResp
  /\ UNCHANGED << accounts, usrOps, workflowVars, listVars, eventVars >>

\* await User.findByIdAndDelete(req.params.id); 200
UsrDeleteRemove(s, ok) ==
  /\ usrReqs[s].op = "delete" /\ usrReqs[s].pc = "remove"
  /\ IF ok
     THEN /\ accounts' = [accounts EXCEPT ![usrReqs[s].id] = "none"]
          /\ UsrFinish(s, 200)
     ELSE /\ UsrFinish(s, 500)
          /\ UNCHANGED accounts
  /\ UNCHANGED << usrOps, workflowVars, listVars, eventVars >>

\* --------------------------------------------------------------- behaviours
Uploaders == {u \in Users : UserTable[u].department = "CS"}
Callers == {NoUser} \cup {u \in Users : Role(u) = "student"}
ApprovedParams == {"absent", "true", "false"}
CmsCallers == {u \in Users : UserTable[u].department = "CS"}

\* POST /: the upload handler, the file deletions and the fan-outs it starts
NextSubmit ==
  \/ \E s \in Slots, u \in Uploaders, d \in Depts, valid \in BOOLEAN, hasFile \in BOOLEAN :
       StartSubmit(s, u, router, d, valid, hasFile)
  \/ \E s \in Slots, ok \in BOOLEAN : SubmitSave(s, ok)
  \/ \E s \in Slots, ok \in BOOLEAN : SubmitPopulate(s, ok)
  \/ \E s \in Slots, ok \in BOOLEAN : SubmitUserFind(s, ok)
  \/ \E i \in 1..Len(tasks) : FanoutRun(i)
  \/ \E i \in 1..Len(tasks), u \in Users, ok \in BOOLEAN : SendSettle(i, u, ok)
  \/ \E p \in Paths : UnlinkComplete(p)

\* PATCH /:id/approve
NextModerate ==
  \/ \E s \in Slots, u \in Users, id \in Ids, approved \in BOOLEAN :
       \E reason \in (IF approved THEN {FALSE} ELSE BOOLEAN) :
         StartModerate(s, u, router, id, approved, reason)
  \/ \E s \in Slots, ok \in BOOLEAN : ModerateFind(s, ok)
  \/ \E s \in Slots, ok \in BOOLEAN : ModerateUserFind(s, ok)
  \/ \E s \in Slots, ok \in BOOLEAN, strict \in BOOLEAN : ModerateSave(s, ok, strict)
  \/ \E s \in Slots, ok \in BOOLEAN : ModerateDelete(s, ok)
  \/ \E s \in Slots, ok \in BOOLEAN : ModerateRejectMail(s, ok)

\* POST /: the steps of the upload handler itself
NextSubmitHandler ==
  \/ \E s \in Slots, u \in Uploaders, d \in Depts, valid \in BOOLEAN, hasFile \in BOOLEAN :
       StartSubmit(s, u, router, d, valid, hasFile)
  \/ \E s \in Slots, ok \in BOOLEAN : SubmitSave(s, ok)
  \/ \E s \in Slots, ok \in BOOLEAN : SubmitPopulate(s, ok)
  \/ \E s \in Slots, ok \in BOOLEAN : SubmitUserFind(s, ok)

\* PATCH /:id/approve with approved = true
NextApprove ==
  \/ \E s \in Slots, u \in Users, id \in Ids : StartApprove(s, u, router, id)
  \/ \E s \in Slots, ok \in BOOLEAN : ModerateFind(s, ok)
  \/ \E s \in Slots, ok \in BOOLEAN : ModerateUserFind(s, ok)
  \/ \E s \in Slots, ok \in BOOLEAN, strict \in BOOLEAN : ModerateSave(s, ok, strict)

\* GET / and GET /:id
NextRead ==
  \/ \E s \in Slots, u \in Callers, a \in ApprovedParams : List(s, u, router, a)
  \/ \E s \in Slots, u \in Callers, id \in Ids : Detail(s, u, router, id)

\* GET /:id/download
NextDownload ==
  \/ \E s \in Slots, id \in Ids, ok \in BOOLEAN : Download(s, router, id, ok)
  \/ \E s \in Slots, ok \in BOOLEAN : DownloadSave(s, ok)

\* college-management-system backend
NextCms ==
  \E u \in CmsCallers, body \in CmsBodies, courseFound \in BOOLEAN, ok \in BOOLEAN :
    CmsCreate(u, body, courseFound, ok)

CmsNoteIds == 1..MaxCmsCreates
CmsViewers == CmsCallers \cup {NoUser}

\* college-management-system backend: like, comment, download, detail
NextCmsEngage ==
  \/ \E s \in Slots, u \in CmsCallers, id \in CmsNoteIds, ok \in BOOLEAN : CmsLike(s, u, id, ok)
  \/ \E s \in Slots, u \in CmsCallers, id \in CmsNoteIds, valid \in BOOLEAN, ok \in BOOLEAN :
       CmsComment(s, u, id, valid, ok)
  \/ \E s \in Slots, u \in CmsCallers, id \in CmsNoteIds, ok \in BOOLEAN : CmsDownload(s, u, id, ok)
  \/ \E s \in Slots, u \in CmsViewers, id \in CmsNoteIds, ok \in BOOLEAN : CmsDetail(s, u, id, ok)
  \/ \E s \in Slots, ok \in BOOLEAN : CmsSave(s, ok)

\* college-management-system backend: update and delete
NextCmsEdit ==
  \/ \E s \in Slots, u \in CmsCallers, id \in CmsNoteIds, body \in CmsUpdateBodies, ok \in BOOLEAN :
       CmsUpdate(s, u, id, body, ok)
  \/ \E s \in Slots, u \in CmsCallers, id \in CmsNoteIds, ok \in BOOLEAN : CmsDelete(s, u, id, ok)

\* The submission and moderation workflow of one router
Next == NextSubmit \/ NextModerate

Spec == Init /\ [][Next]_vars

\* Submission and repeated approval.  The fan-out callbacks and the unlink
\* completions, which touch no document and no request, are left to Spec
SpecApprove == Init /\ [][NextSubmitHandler \/ NextApprove]_vars

\* The workflow together with the public read routes, which change nothing
SpecRead == Init /\ [][Next \/ NextRead]_vars

\* Submission alone, in both backends
SpecSubmission == Init /\ [][NextSubmit \/ NextCms]_vars

\* Submission alone; an fs.unlink that was issued completes (libuv runs it)
SpecSubmitFair ==
  Init /\ [][NextSubmit]_vars /\ WF_vars(\E p \in Paths : UnlinkComplete(p))

\* The server backend runs alone / the college-management-system backend runs alone
CmsUntouched == cmsNotes = << >> /\ cmsOps = 0
ServerUntouched == uploads = 0 /\ moderations = 0 /\ reads = 0

\* The college-management-system notes routes
SpecCms == Init /\ [][NextCms \/ NextCmsEngage \/ NextCmsEdit]_vars

\* Submission, download and engagement, in either backend: a behaviour runs
\* the server routes or the college-management-system routes
NextEngagement ==
  \/ (CmsUntouched /\ (NextSubmit \/ NextDownload))
  \/ (ServerUntouched /\ (NextCms \/ NextCmsEngage \/ NextCmsEdit))

SpecEngagement == Init /\ [][NextEngagement]_vars

\* Query strings of the list requests
ListQueries ==
  [page : 0..MaxPage, limit : 0..MaxLimit, department : {"", "CS"}, semester : {0, 1},
   subject : {<< >>, << "m" >>}, search : {<< >>, << "A" >>, << "b" >>},
   approved : {"absent", "false"}, status : {"", "pending"}]

\* GET / of the server notes router and GET /api/notes of the
\* college-management-system backend
NextList ==
  \/ \E q \in ListQueries, ok \in BOOLEAN : ListPage(q, ok)
  \/ \E u \in Users \cup {NoUser}, q \in ListQueries, ok \in BOOLEAN : CmsList(u, q, ok)

SpecList == Init /\ [][NextList]_vars

\* The events router of the college-management-system backend
EvIds == 1..MaxEvents

NextEvents ==
  \/ \E u \in Users, body \in EvBodies, valid \in BOOLEAN, ok \in BOOLEAN : EvCreate(u, body, valid, ok)
  \/ \E s \in Slots, u \in Users, id \in EvIds, body \in EvUpdateBodies, ok \in BOOLEAN :
       EvUpdate(s, u, id, body, ok)
  \/ \E s \in Slots, u \in Users, id \in EvIds, late \in BOOLEAN, ok \in BOOLEAN :
       EvRegister(s, u, id, late, ok)
  \/ \E s \in Slots, u \in Users, id \in EvIds, ok \in BOOLEAN : EvUnregister(s, u, id, ok)
  \/ \E s \in Slots, ok \in BOOLEAN : EvSave(s, ok)

SpecEvents == Init /\ [][NextEvents]_vars

\* The user-administration routes of the server
NextUsers ==
  \/ \E u \in Users, id \in Users, role \in Roles \cup {"guest"}, ok \in BOOLEAN :
       UsrSetRole(u, id, role, ok)
  \/ \E s \in Slots, u \in Users, id \in Users : UsrDelete(s, u, id)
  \/ \E s \in Slots, ok \in BOOLEAN : UsrDeleteFind(s, ok)
  \/ \E s \in Slots, ok \in BOOLEAN : UsrDeleteCount(s, ok)
  \/ \E s \in Slots, ok \in BOOLEAN : UsrDeleteRemove(s, ok)

SpecUsers == Init /\ [][NextUsers]_vars

\* The database calls a handler awaits
DbStep(s) ==
  \E ok \in BOOLEAN :
    \/ SubmitSave(s, ok) \/ SubmitPopulate(s, ok) \/ SubmitUserFind(s, ok)
    \/ ModerateFind(s, ok) \/ ModerateUserFind(s, ok) \/ ModerateDelete(s, ok)
    \/ \E strict \in BOOLEAN : ModerateSave(s, ok, strict)

\* The workflow where every database call and every fs.unlink completes, while
\* a mail send may stay pending for ever
SpecAnswerFair ==
  /\ Spec
  /\ \A s \in Slots : WF_vars(DbStep(s))
  /\ WF_vars(\E p \in Paths : UnlinkComplete(p))

\* ================================================================== claims
\* C1: a list or detail response to an unauthenticated caller, or to a student
\* who is not the item's uploader, never carries a pending item, whatever the
\* query parameters
C1_PendingHiddenFromUnprivileged ==
  (out.op \in {"list", "detail"} /\ (out.user = NoUser \/ Role(out.user) = "student"))
    => \A it \in out.items : it.isApproved \/ it.uploadedBy = out.user

\* C2: the document a submission stores is approved exactly when the requester
\* is a teacher or an admin, and pending otherwise (server routes and
\* college-management-system route)
C2_StoredStatusFromRole ==
  [][ /\ \A s \in Slots :
           (reqs[s].op = "submit" /\ reqs[s].pc = "save" /\ reqs'[s].pc = "populate")
             => /\ repo'[reqs[s].id].id = reqs[s].id
                /\ repo'[reqs[s].id].isApproved <=> (Role(reqs[s].user) \in {"teacher", "admin"})
      /\ Len(cmsNotes') > Len(cmsNotes)
           => LET n == cmsNotes'[Len(cmsNotes')]
              IN /\ n.status \in {"pending", "approved"}
                 /\ n.status = "approved" <=> (Role(cmsResp'.user) \in {"teacher", "admin"}) ]_vars

C2_Witness ==
  /\ \E i \in Ids : repo[i].id # 0 /\ repo[i].isApproved /\ Role(repo[i].uploadedBy) = "teacher"
  /\ \E k \in 1..Len(cmsNotes) :
       cmsNotes[k].status = "pending" /\ Role(cmsNotes[k].uploadedBy) = "student"

\* C3: an approve call on an item that is in the repository when the approval
\* is saved, and that is answered with success, has stored the item as approved,
\* with approvedBy the moderator and approvedAt a time within the call, and
\* returns the item so updated
C3_ApprovePersists ==
  [][ \A s \in Slots :
        ( /\ reqs[s].op = "moderate" /\ reqs[s].pc = "save" /\ reqs[s].approved
          /\ Exists(reqs[s].id)
          /\ reqs'[s].op = "idle" /\ out'.status = 200 )
        => LET stored == repo'[reqs[s].id]
           IN /\ stored.id = reqs[s].id
              /\ stored.isApproved
              /\ stored.approvedBy = reqs[s].user
              /\ reqs[s].t0 <= stored.approvedAt /\ stored.approvedAt <= now
              /\ out'.items # {}
              /\ \A it \in out'.items :
                   /\ it.id = reqs[s].id /\ it.isApproved
                   /\ it.approvedBy = reqs[s].user /\ it.approvedAt = stored.approvedAt ]_vars

C3_Witness ==
  /\ out.op = "moderate" /\ out.approved /\ out.status = 200
  /\ Exists(out.id)
  /\ Role(repo[out.id].uploadedBy) = "student"
  /\ repo[out.id].isApproved /\ repo[out.id].approvedBy = out.user

\* C4: once a reject call is answered with success, the item is gone from the
\* repository and its file is gone from the file store (or being deleted)
C4_RejectRemovesItemAndFile ==
  (out.op = "moderate" /\ ~out.approved /\ out.status = 200)
    => /\ ~Exists(out.id)
       /\ \A p \in files :
            p.name = out.doc.fileUrl.name => unlinkDone[p] < unlinkIssued[p]

\* C5: a submission with a stored file and invalid metadata is answered with a
\* validation error, has the deletion of that file invoked exactly once, and
\* creates no document; no file is ever deleted twice
C5_InvalidSubmissionCleansUp ==
  /\ (out.op = "submit" /\ ~out.valid /\ out.file # NoPath)
       => /\ out.status = 400 /\ out.err = "validation"
          /\ unlinkIssued[out.file] = 1
          /\ \A i \in Ids : repo[i].id # 0 => repo[i].fileUrl.name # out.file.name
          /\ \A s \in Slots : reqs[s].file # out.file
  /\ \A p \in Paths : unlinkIssued[p] <= 1

C5_Witness ==
  /\ out.op = "submit" /\ ~out.valid /\ out.file # NoPath
  /\ out.file \in files
  /\ unlinkIssued[out.file] = 1 /\ unlinkDone[out.file] = 0

\* C6: when the save of a submission fails, the request is answered with a
\* server error, no document of that submission is in the repository, and the
\* stored file is deleted: the deletion is issued once and the file goes away
C6_FailedSaveCleansUp ==
  /\ []( (out.op = "submit" /\ out.err = "save")
            => /\ out.status = 500
               /\ out.file # NoPath
               /\ unlinkIssued[out.file] = 1
               /\ ~Exists(out.id)
               /\ \A i \in Ids : repo[i].id # 0 => repo[i].fileUrl.name # out.file.name )
  /\ \A p \in Paths :
       (out.op = "submit" /\ out.err = "save" /\ out.file = p) ~> (p \notin files)
  /\ \A p \in Paths : [](p \notin files /\ unlinkDone[p] > 0 => [](p \notin files))

C6_Witness ==
  /\ out.op = "submit" /\ out.err = "save" /\ out.status = 500
  /\ out.file \in files
  /\ unlinkIssued[out.file] = 1

\* C7: an approve call on an existing item whose recipient lookup fails still
\* stores the item as approved and is still answered with the approval
C7_ApproveIndependentOfNotification ==
  (out.op = "moderate" /\ out.approved /\ out.err = "userFind" /\ Exists(out.id))
    => out.status = 200 /\ repo[out.id].isApproved

\* C8: every submission and every moderation request is eventually answered,
\* even when a notification send never completes
C8_AnsweredWithoutWaitingForMail ==
  \A s \in Slots : (reqs[s].op \in {"submit", "moderate"}) ~> (reqs[s].op = "idle")

\* C9: in a fan-out that has started, a delivery has been attempted for every
\* recipient, whatever happened to the other deliveries; and the settling of a
\* send, failed or not, touches no request and no response
C9_FanoutIsolatesFailures ==
  /\ [](\A i \in 1..Len(tasks) :
          tasks[i].started => \A u \in tasks[i].recips : tasks[i].status[u] # "queued")
  /\ [][ (\E i \in 1..Len(tasks) :
             /\ tasks[i].started
             /\ \/ Len(tasks') < Len(tasks)
                \/ (Len(tasks') = Len(tasks) /\ tasks'[i] # tasks[i]))
          => (reqs' = reqs /\ repo' = repo /\ out' = NoOut) ]_vars

C9_Witness ==
  \E i \in 1..Len(tasks) : \E u, v \in tasks[i].recips :
    /\ u # v
    /\ tasks[i].status[u] = "failed"
    /\ tasks[i].status[v] \in {"inflight", "ok"}

\* C10: the recipients of the fan-out for a published item (approved, or
\* submitted by a teacher or admin) are the users of the item's department who
\* enabled e-mail and the preference of the item's type, without the uploader
C10_RecipientsAreTheInterested ==
  /\ [](\A i \in 1..Len(tasks) :
          /\ \A u \in Users :
               u \in tasks[i].recips <=>
                 /\ UserTable[u].department = tasks[i].department
                 /\ UserTable[u].email
                 /\ (tasks[i].kind = "note" => UserTable[u].newNotes)
                 /\ (tasks[i].kind = "question" => UserTable[u].newQuestions)
                 /\ u # tasks[i].uploadedBy
          /\ tasks[i].recips \subseteq Users
          /\ tasks[i].uploadedBy \notin tasks[i].recips)
  /\ [][ \A s \in Slots :
          ( /\ reqs[s].pc = "userFind"
            /\ \/ reqs[s].op = "submit" /\ reqs'[s].op = "idle" /\ out'.status = 201
               \/ reqs[s].op = "moderate" /\ reqs'[s].pc = "save" )
          => IF \E u \in Users :
                  /\ UserTable[u].department = reqs[s].doc.department
                  /\ UserTable[u].email
                  /\ (reqs[s].doc.kind = "note" => UserTable[u].newNotes)
                  /\ (reqs[s].doc.kind = "question" => UserTable[u].newQuestions)
                  /\ u # reqs[s].doc.uploadedBy
             THEN /\ Len(tasks') = Len(tasks) + 1
                  /\ tasks'[Len(tasks')].item = reqs[s].doc.id
                  /\ tasks'[Len(tasks')].kind = reqs[s].doc.kind
                  /\ tasks'[Len(tasks')].department = reqs[s].doc.department
                  /\ tasks'[Len(tasks')].uploadedBy = reqs[s].doc.uploadedBy
             ELSE tasks' = tasks ]_vars

C10_Witness ==
  \E i \in 1..Len(tasks) :
    /\ tasks[i].started
    /\ tasks[i].recips # {}
    /\ UserTable[tasks[i].uploadedBy].department = tasks[i].department
    /\ UserTable[tasks[i].uploadedBy].email
    /\ UserTable[tasks[i].uploadedBy].newNotes /\ UserTable[tasks[i].uploadedBy].newQuestions
    /\ \E u \in Users \ tasks[i].recips : u # tasks[i].uploadedBy

\* C11: a submission stored as pending schedules no notification; a fan-out is
\* scheduled only by the submission of a teacher or admin (stored approved) or
\* by the approve call of a moderator, so every fan-out for a non-moderator's
\* item comes from an approve call
C11_PendingSubmissionNotifiesNobody ==
  /\ [](\A i \in 1..Len(tasks) :
          /\ tasks[i].origin \in {"submit", "approve"}
          /\ tasks[i].origin = "submit" => Role(tasks[i].uploadedBy) \in {"teacher", "admin"}
          /\ Role(tasks[i].uploadedBy) \notin {"teacher", "admin"} => tasks[i].origin = "approve")
  /\ [][ /\ \A s \in Slots :
             ( /\ (reqs[s].op = "submit" \/ reqs'[s].op = "submit")
               /\ reqs'[s] # reqs[s]
               /\ \/ ~reqs[s].doc.isApproved /\ reqs[s].op = "submit"
                  \/ ~reqs'[s].doc.isApproved /\ reqs'[s].op = "submit" )
             => tasks' = tasks
         /\ Len(tasks') > Len(tasks)
             => \E s \in Slots :
                  /\ reqs[s].pc = "userFind"
                  /\ tasks'[Len(tasks')].item = reqs[s].doc.id
                  /\ \/ /\ reqs[s].op = "submit"
                        /\ reqs[s].doc.isApproved
                        /\ Role(reqs[s].user) \in {"teacher", "admin"}
                     \/ /\ reqs[s].op = "moderate"
                        /\ reqs[s].approved
                        /\ Role(reqs[s].user) \in {"teacher", "admin"} ]_vars

C11_Witness ==
  /\ out.op = "submit" /\ out.status = 201
  /\ Role(out.user) = "student"
  /\ \E it \in out.items : ~it.isApproved /\ Exists(it.id)
  /\ InterestedUsers(out.doc.department, out.kind, out.user) # {}
  /\ tasks = << >>

\* C12: a reject call sends the rejection notice exactly when a
\* rejectionReason was given, and once; whether the notice is delivered or
\* fails, the call is answered with the acknowledgement and the item is deleted
C12_RejectionNoticeIsBestEffort ==
  [][ \A s \in Slots :
        /\ ( /\ reqs[s].op = "moderate" /\ ~reqs[s].approved
             /\ reqs'[s].op = "idle" /\ out'.status = 200 )
           => /\ ((reqs[s].pc = "rejectMail") <=> reqs[s].reason)
              /\ reqs[s].pc \in {"rejectMail", "delete"}
              /\ repo'[reqs[s].id].id = 0
        /\ (reqs[s].pc = "rejectMail" /\ reqs'[s] # reqs[s])
           => /\ reqs'[s] = Idle
              /\ out'.status = 200 /\ out'.op = "moderate" /\ out'.id = reqs[s].id
              /\ repo' = repo /\ repo[reqs[s].id].id = 0
        /\ (reqs'[s].pc = "rejectMail" /\ reqs[s].pc # "rejectMail")
           => /\ reqs[s].pc = "delete" /\ reqs[s].reason /\ ~reqs[s].approved
              /\ repo'[reqs[s].id].id = 0 ]_vars

C12_Witness ==
  /\ out.op = "moderate" /\ ~out.approved /\ out.reason
  /\ out.err = "mail" /\ out.status = 200
  /\ ~Exists(out.id)
  /\ out.doc.id = out.id
\* C13: an approved item has approvedBy and approvedAt set, or was uploaded by
\* a teacher or admin (whose uploads are created approved); for a note of the
\* college-management-system backend, whose schema has no approvedAt path,
\* approvedBy is set or the uploader is a teacher or admin
C13_ApprovedHasApprover ==
  /\ \A i \in Ids :
       (repo[i].id # 0 /\ repo[i].isApproved)
         => \/ repo[i].approvedBy # NoUser /\ repo[i].approvedAt # 0
            \/ Role(repo[i].uploadedBy) \in {"teacher", "admin"}
  /\ \A k \in 1..Len(cmsNotes) :
       cmsNotes[k].status = "approved"
         => \/ cmsNotes[k].approvedBy # NoUser
            \/ Role(cmsNotes[k].uploadedBy) \in {"teacher", "admin"}

\* C14: the stored moderation states are pending and approved, an approved
\* item never returns to pending, and an item that was deleted stays deleted
C14_StateOnlyMovesForward ==
  [][ /\ \A i \in Ids :
           /\ (repo[i].id # 0 /\ repo[i].isApproved /\ repo'[i].id # 0) => repo'[i].isApproved
           /\ ( /\ repo[i].id = 0 /\ i < nextId
                /\ \A s \in Slots : ~(reqs[s].op = "submit" /\ reqs[s].pc = "save" /\ reqs[s].id = i) )
              => repo'[i].id = 0
      /\ \A k \in 1..Len(cmsNotes) :
           /\ cmsNotes'[k].status \in {"pending", "approved"}
           /\ cmsNotes[k].status = "approved" => cmsNotes'[k].status = "approved"
           /\ ~cmsNotes[k].isActive => ~cmsNotes'[k].isActive ]_vars

\* C15: no step changes the uploadedBy of an existing item
C15_UploadedByImmutable ==
  [][ /\ \A i \in Ids :
           (repo[i].id # 0 /\ repo'[i].id # 0) => repo'[i].uploadedBy = repo[i].uploadedBy
      /\ \A k \in 1..Len(cmsNotes) :
           cmsNotes'[k].uploadedBy = cmsNotes[k].uploadedBy ]_vars

\* C16: a successful like request on a note whose likes did not change since
\* the request read them adds the user when absent (liked = true) and removes
\* the user when present (liked = false), and reports the new count; on any
\* like set without duplicates two likes by one user restore membership and
\* count, and from the empty set likes by two distinct users give count 2 with
\* each user once, in either order
C16_LikeToggles ==
  /\ [][ \A s \in Slots :
          ( /\ cmsReqs[s].op = "like" /\ cmsReqs'[s] = CmsIdle
            /\ cmsResp'.status = 200
            /\ cmsNotes[cmsReqs[s].note].v = cmsReqs[s].v )
          => LET u == cmsReqs[s].user
                 before == cmsNotes[cmsReqs[s].note].likes
                 after == cmsNotes'[cmsReqs[s].note].likes
             IN /\ cmsResp'.count = Len(after)
                /\ cmsResp'.liked = ~Has(before, u)
                /\ Has(after, u) = ~Has(before, u)
                /\ \A x \in Users \ {u} : Has(after, x) = Has(before, x)
                /\ Len(after) = IF Has(before, u)
                                THEN Len(before) - Cardinality({i \in 1..Len(before) : before[i] = u})
                                ELSE Len(before) + 1 ]_vars
  /\ [](\A k \in 1..Len(cmsNotes) : \A u, w \in Users :
          LET likes == cmsNotes[k].likes
              twice == LikeToggle(LikeToggle(likes, u), u)
              uw == LikeToggle(LikeToggle(<< >>, u), w)
              wu == LikeToggle(LikeToggle(<< >>, w), u)
          IN /\ (\A i, j \in 1..Len(likes) : likes[i] = likes[j] => i = j)
                  => /\ Len(twice) = Len(likes)
                     /\ \A x \in Users : Has(twice, x) = Has(likes, x)
             /\ u # w
                  => /\ Len(uw) = 2 /\ Len(wu) = 2
                     /\ \A x \in Users : Has(uw, x) = (x \in {u, w})
                     /\ \A x \in Users : Has(wu, x) = (x \in {u, w}))

C16_Witness ==
  /\ cmsResp.op = "like" /\ cmsResp.status = 200
  /\ ~cmsResp.liked /\ cmsResp.count = 0
  /\ cmsResp.note \in 1..Len(cmsNotes)
  /\ cmsNotes[cmsResp.note].likes = << >>
  /\ cmsNotes[cmsResp.note].v = 2

\* C17: a note never holds two view entries of one user, and none of an
\* unauthenticated caller
C17_OneViewPerUser ==
  \A k \in 1..Len(cmsNotes) :
    /\ \A i, j \in 1..Len(cmsNotes[k].views) :
         cmsNotes[k].views[i] = cmsNotes[k].views[j] => i = j
    /\ ~Has(cmsNotes[k].views, NoUser)

C19_DownloadsOnlyGrow ==
  [][ /\ \A i \in Ids :
           (repo[i].id # 0 /\ repo'[i].id # 0)
             => /\ repo'[i].downloads >= repo[i].downloads
                /\ repo'[i].downloads # repo[i].downloads
                     => \E s \in Slots : reqs[s].op = "download" /\ reqs'[s].op = "idle"
      /\ \A k \in 1..Len(cmsNotes) :
           /\ Len(cmsNotes'[k].downloads) >= Len(cmsNotes[k].downloads)
           /\ cmsNotes'[k].downloads # cmsNotes[k].downloads
                => \E s \in Slots : cmsReqs[s].op = "download" /\ cmsReqs'[s] = CmsIdle ]_vars

\* C20: a like, comment, detail (view tracking) or download request goes on to
\* write only for an approved item; for a pending or missing item it is
\* answered with 403 or 404 (400, 500 for an invalid or failed request)
C20_EngagementOnlyOnApproved ==
  [][ /\ \A s \in Slots :
           ( /\ cmsReqs[s] = CmsIdle
             /\ cmsReqs'[s].op \in {"like", "comment", "detail", "download"} )
           => cmsNotes[cmsReqs'[s].note].status = "approved"
      /\ ( /\ cmsOps' = cmsOps + 1
           /\ cmsResp'.op \in {"like", "comment", "detail", "download"}
           /\ cmsResp'.status = 200 )
           => cmsNotes[cmsResp'.note].status = "approved"
      /\ \A s \in Slots :
           (reqs[s] = Idle /\ reqs'[s].op = "download") => reqs'[s].doc.isApproved ]_vars
\* C21: a list request with page >= 1 and limit in 1..50 over `total` matching
\* items returns min(limit, max(0, total - (page-1)*limit)) items, reports
\* ceil(total/limit) pages, hasPrev exactly when page > 1 and hasNext exactly
\* when page*limit < total, in both backends
C21_PageEnvelope ==
  LET r == listResp
      page == r.query.page
      limit == r.query.limit
      rest == r.total - (page - 1) * limit
  IN (r.status = 200 /\ page >= 1 /\ limit \in 1..50) =>
       /\ Len(r.notes) = Min(limit, IF rest > 0 THEN rest ELSE 0)
       /\ r.pages * limit >= r.total
       /\ (r.pages - 1) * limit < r.total \/ (r.total = 0 /\ r.pages = 0)
       /\ r.current = page
       /\ r.hasPrev <=> (page > 1)
       /\ r.hasNext <=> (page * limit < r.total)

\* a result set of 5 with limit 2: page 3 holds the last item, has a previous
\* page and no next one (in each backend)
C21_Witness ==
  /\ listResp.status = 200 /\ listResp.backend = "server"
  /\ listResp.total = 5 /\ listResp.query.limit = 2 /\ listResp.query.page = 3
  /\ Len(listResp.notes) = 1 /\ listResp.hasPrev /\ ~listResp.hasNext

\* C22: every item a list request returns satisfies every supplied filter and,
\* when a search term is supplied, matches the term in one of the searched
\* fields, whatever the caller's role
C22_FiltersAndSearchApply ==
  LET r == listResp
      q == r.query
  IN r.status = 200 =>
       \A k \in 1..Len(r.notes) :
         LET item == r.notes[k]
         IN /\ q.department # "" => item.department = q.department
            /\ q.semester # 0 => item.semester = q.semester
            /\ q.subject # << >> => RegexI(item.subject, q.subject)
            /\ (q.status # "" /\ r.backend = "cms" /\ Role(r.user) \in {"teacher", "admin"}) =>
                 item.status = q.status
            /\ q.search # << >> =>
                 \/ RegexI(item.title, q.search)
                 \/ RegexI(item.description, q.search)
                 \/ AnyTag(item.tags, q.search)
                 \/ (r.backend = "cms" /\ \/ RegexI(item.subject, q.search)
                                          \/ RegexI(item.chapter, q.search)
                                          \/ RegexI(item.topic, q.search))

\* C23: when PUT /api/events/:id changes an event's status from a
\* non-published value to published, an event notification e-mail is sent to
\* the users in the event's target audience
C23_PublishNotifiesAudience ==
  [][ \A i \in 1..Len(events) :
        (events[i].status # "published" /\ events'[i].status = "published") =>
          /\ Len(evMails') = Len(evMails) + 1
          /\ evMails'[Len(evMails')] = [event |-> i, to |-> EvAudience(events'[i])] ]_vars

\* C28: for an event with registrationRequired and maxParticipants set, the
\* number of registered users never exceeds maxParticipants and no user is
\* registered more than once, under any interleaving of register and
\* unregister calls
C28_RegistrationWithinCapacity ==
  \A i \in 1..Len(events) :
    (events[i].registrationRequired /\ events[i].maxParticipants # 0) =>
      /\ Len(events[i].registeredUsers) <= events[i].maxParticipants
      /\ \A j, k \in 1..Len(events[i].registeredUsers) :
           events[i].registeredUsers[j] = events[i].registeredUsers[k] => j = k

\* C29: a register call that passes every check persists the registration and
\* is answered with success and the new registration count; a registration is
\* never persisted while the caller is told the request failed
C29_RegisterAnswersSuccess ==
  [][ \A s \in Slots :
        (evReqs[s].op = "register" /\ evReqs'[s].op = "idle" /\ events' # events) =>
          /\ evResp'.status = 200
          /\ evResp'.count = Len(events'[evReqs[s].event].registeredUsers) ]_vars

\* C30: after any sequence or interleaving of delete-user and change-role
\* calls, at least one user with role admin exists
C30_AnAdminRemains == \E u \in Users : accounts[u] = "admin"

\* C24: whenever a new-content notification is attempted because of an approve
\* call, the item is already stored as approved; none is attempted for an
\* approval whose persist has not happened or has failed
C24_FanoutFollowsPersist ==
  [][ \A i \in 1..Len(tasks) :
        (/\ tasks[i].origin = "approve"
         /\ ~tasks[i].started
         /\ Len(tasks') = Len(tasks)
         /\ tasks'[i].started)
          => repo[tasks[i].item].isApproved ]_vars

\* C25: approve calls on the same item that overlap all persist: an item that an
\* approve call has stored stays approved, the save of a further approve call
\* replaces approvedBy and approvedAt by that call's own pair (the later
\* persist wins), and the call is answered with success unless its own save
\* fails
C25_LaterApproveWins ==
  /\ [](\A i \in Ids : repo[i].approvedBy # NoUser => repo[i].isApproved)
  /\ [][ \A s \in Slots :
           ( /\ reqs[s].op = "moderate" /\ reqs[s].pc = "save" /\ reqs[s].approved
             /\ repo[reqs[s].id].approvedBy # NoUser
             /\ reqs'[s].op = "idle" )
           => \/ /\ out'.status = 200
                 /\ repo' = [repo EXCEPT ![reqs[s].id] =
                               [@ EXCEPT !.approvedBy = reqs[s].doc.approvedBy,
                                         !.approvedAt = reqs[s].doc.approvedAt]]
                 /\ reqs[s].doc.approvedBy = reqs[s].user
              \/ /\ out'.status = 500 /\ out'.err = "save"
                 /\ repo' = repo ]_vars

\* the first of two overlapping approve calls on a student's item has persisted
\* and was answered with success while the second, by another moderator, has
\* passed its existence check and is about to save
C25_Witness ==
  \E s \in Slots :
    /\ reqs[s].op = "moderate" /\ reqs[s].pc = "save" /\ reqs[s].approved
    /\ out.op = "moderate" /\ out.status = 200 /\ out.id = reqs[s].id
    /\ repo[out.id].approvedBy = out.user
    /\ reqs[s].user # out.user
    /\ reqs[s].t0 <= repo[out.id].approvedAt
    /\ Role(repo[out.id].uploadedBy) = "student"

\* C26: like requests on the same approved note that overlap are safe: no user
\* ever appears more than once in a note's likes, and every like request that
\* is answered with success has toggled the requester in the stored likes and
\* left the other users' likes as they were
C26_ConcurrentLikesSafe ==
  /\ [](\A k \in 1..Len(cmsNotes) :
          \A i, j \in 1..Len(cmsNotes[k].likes) :
            cmsNotes[k].likes[i] = cmsNotes[k].likes[j] => i = j)
  /\ [][ \A s \in Slots :
           (cmsReqs[s].op = "like" /\ cmsReqs'[s] = CmsIdle /\ cmsResp'.status = 200)
           => LET u == cmsReqs[s].user
                  before == cmsNotes[cmsReqs[s].note].likes
                  after == cmsNotes'[cmsReqs[s].note].likes
              IN /\ Has(after, u) = ~Has(before, u)
                 /\ \A x \in Users \ {u} : Has(after, x) = Has(before, x) ]_vars

\* C27: every item that exists in the repository still has its uploaded file
\* in the file store: the submission deletes the uploaded file only when no
\* record of that submission was persisted, also when a step after the save
\* (populating the uploader, looking up the recipients) fails
C27_StoredItemKeepsFile ==
  \A i \in Ids :
    Exists(i) =>
      /\ StoredPath(repo[i].fileUrl.name) \in files
      /\ unlinkIssued[StoredPath(repo[i].fileUrl.name)] = 0

====
